---------------------------- MODULE Spec2Model ----------------------------
(***************************************************************************)
(* A model of pykrylov's BiCGSTAB.solve (src/pykrylov/bicgstab/bicgstab.py).*)
(*                                                                         *)
(* Scalars are exact extended rationals <<n, d>>: d > 0 is the finite      *)
(* number n/d in lowest terms, <<1,0>> is +inf, <<-1,0>> is -inf and       *)
(* <<0,0>> is NaN, with the IEEE rules for inf and NaN that numpy's        *)
(* float64 follows (rounding and signed zeros are left out).  A residual   *)
(* norm sqrt(y) is kept through its radicand y: sqrt is monotone on the    *)
(* values it is applied to, so norms are compared through radicands.       *)
(* Arrays live on a heap and variables hold references, so that the        *)
(* aliasing the code relies on (r0 is rhs, q is p, z is s, x is the        *)
(* caller's guess) is part of the model.                                   *)
(***************************************************************************)
EXTENDS Integers, Sequences, FiniteSets, TLC

-----------------------------------------------------------------------------
(* Extended rational arithmetic (float64 scalars of numpy / math).         *)
(* An operator that reads an argument several times first binds it as a    *)
(* value, by ranging over a one-element set, so that it is computed once.  *)

Abs(i) == IF i < 0 THEN -i ELSE i

Sgn(i) == IF i < 0 THEN -1 ELSE IF i = 0 THEN 0 ELSE 1

\* Euclid's algorithm
RECURSIVE GCD(_, _)
GCD(a, b) == IF b = 0 THEN a ELSE CHOOSE g \in {GCD(b, m) : m \in {a % b}} : TRUE

\* lowest terms; every non-finite value has one representation
Normalize(n0, d0) ==
    CHOOSE y \in
      { IF d = 0 THEN <<Sgn(n), 0>>
        ELSE CHOOSE w \in {<<(Sgn(d) * n) \div g, Abs(d) \div g>> : g \in {GCD(Abs(n), Abs(d))}} : TRUE
        : n \in {n0}, d \in {d0} } : TRUE

Q(i) == <<i, 1>>

Zero == Q(0)

One == Q(1)

NaN == <<0, 0>>

PosInf == <<1, 0>>

IsFinite(a) == a[2] # 0

IsNaN(a) == a = NaN

Neg(a) == CHOOSE y \in {<<-c[1], c[2]>> : c \in {a}} : TRUE

\* inf * 0 is NaN; common factors are cancelled before multiplying, to keep
\* the integers small
Mul(a0, b0) ==
    CHOOSE y \in
      { IF a[2] = 0 \/ b[2] = 0 \/ a[1] = 0 \/ b[1] = 0
        THEN Normalize(Sgn(a[1]) * Sgn(b[1]), Sgn(a[2]) * Sgn(b[2]))
        ELSE CHOOSE w \in
               { <<(a[1] \div g) * (b[1] \div h), (a[2] \div h) * (b[2] \div g)>>
                 : g \in {GCD(Abs(a[1]), b[2])}, h \in {GCD(Abs(b[1]), a[2])} } : TRUE
        : a \in {a0}, b \in {b0} } : TRUE

\* inf + (-inf) is NaN
Add(a0, b0) ==
    CHOOSE y \in
      { IF a[2] = 0 /\ b[2] = 0 THEN (IF a = b THEN a ELSE NaN)
        ELSE IF a[2] = 0 THEN a
        ELSE IF b[2] = 0 THEN b
        ELSE CHOOSE w \in
               { Normalize(a[1] * (b[2] \div g) + b[1] * (a[2] \div g), (a[2] \div g) * b[2])
                 : g \in {GCD(a[2], b[2])} } : TRUE
        : a \in {a0}, b \in {b0} } : TRUE

Sub(a, b) == Add(a, Neg(b))

\* x / 0 is +-inf, 0 / 0 and inf / inf are NaN, x / inf is 0
Div(a, b0) == CHOOSE y \in {Mul(a, Normalize(b[2], b[1])) : b \in {b0}} : TRUE

\* a <= b; false as soon as one side is NaN
Leq(a0, b0) ==
    \E a \in {a0}, b \in {b0} :
        IF IsNaN(a) \/ IsNaN(b) THEN FALSE
        ELSE IF a[2] = 0 /\ b[2] = 0 THEN a[1] <= b[1]
        ELSE IF a[2] = 0 THEN a[1] < 0
        ELSE IF b[2] = 0 THEN b[1] > 0
        ELSE \E g \in {GCD(a[2], b[2])} : a[1] * (b[2] \div g) <= b[1] * (a[2] \div g)

\* a > b; false as soon as one side is NaN
Gt(a0, b0) == \E a \in {a0}, b \in {b0} : ~IsNaN(a) /\ ~IsNaN(b) /\ ~Leq(a, b)

\* Python's max(a, b): b only when b > a
Max(a, b) == IF Gt(b, a) THEN b ELSE a

-----------------------------------------------------------------------------
(* Vectors (numpy arrays by value) and the operators applied to them.      *)

Vec(ints) == [i \in 1..Len(ints) |-> Q(ints[i])]

Zeros(n) == [i \in 1..n |-> Zero]

VAdd(a0, b0) ==
    CHOOSE y \in {[i \in 1..Len(a) |-> Add(a[i], b[i])] : a \in {a0}, b \in {b0}} : TRUE

VSub(a0, b0) ==
    CHOOSE y \in {[i \in 1..Len(a) |-> Sub(a[i], b[i])] : a \in {a0}, b \in {b0}} : TRUE

VScale(c0, a0) ==
    CHOOSE y \in {[i \in 1..Len(a) |-> Mul(c, a[i])] : c \in {c0}, a \in {a0}} : TRUE

\* the products summed from the first component on
RECURSIVE DotUpTo(_, _, _)
DotUpTo(a, b, k) ==
    IF k = 0 THEN Zero
    ELSE Add(DotUpTo(a, b, k - 1), Mul(a[k], b[k]))

\* np.dot(a, b)
Dot(a0, b0) == CHOOSE y \in {DotUpTo(a, b, Len(a)) : a \in {a0}, b \in {b0}} : TRUE

VFinite(a) == \A i \in 1..Len(a) : IsFinite(a[i])

\* the caller's operator: multiplication by the matrix M (a sequence of rows)
Apply(M0, a0) ==
    CHOOSE y \in {[i \in 1..Len(M) |-> Dot(M[i], a)] : M \in {M0}, a \in {a0}} : TRUE

Mat(rows) == [i \in 1..Len(rows) |-> Vec(rows[i])]

-----------------------------------------------------------------------------
(* Residual norms: math.sqrt(y), kept exactly as [sq |-> y].               *)

Sqrt(y0) == CHOOSE n \in {[sq |-> y] : y \in {y0}} : TRUE

\* a finite c >= 0 read as a norm
AsNorm(c) == [sq |-> Mul(c, c)]

\* c * norm for a finite c >= 0
NScale(c, a) == [sq |-> Mul(Mul(c, c), a.sq)]

NLeq(a, b) == Leq(a.sq, b.sq)

NGt(a, b) == Gt(a.sq, b.sq)

NMax(a, b) == IF NGt(b, a) THEN b ELSE a

\* a result field no solve has written yet
NoNorm == [sq |-> <<>>]

\* Python's None for an absent array or operator
None == <<>>

-----------------------------------------------------------------------------
(* The solver configurations and the calls that are explored.              *)

MaxBudget == 4

Operators ==
    { Mat(<< <<0, 1>>, <<1, 0>> >>),
      Mat(<< <<2, 1>>, <<1, 3>> >>) }

Precons == { None, Mat(<< <<1, 0>>, <<0, 2>> >>) }

Tolerances ==
    { [abstol |-> <<1, 8>>, reltol |-> <<1, 4>>],
      [abstol |-> <<1, 100>>, reltol |-> <<1, 100>>] }

RhsSet == { Vec(<<0, 0>>), Vec(<<1, 0>>), Vec(<<2, 1>>) }

GuessSet == { Vec(<<0, 0>>), Vec(<<1, 2>>) }

\* a call's arguments: rhs and guess by value (guess None when absent), and
\* whether the caller passed one array as both
Args ==
    [rhs : RhsSet, guess : GuessSet \cup {None}, same : {FALSE}]
      \cup { [rhs |-> b, guess |-> b, same |-> TRUE] : b \in RhsSet }

\* before the first call
NoArg == [rhs |-> None, guess |-> None, same |-> FALSE]

-----------------------------------------------------------------------------
VARIABLES
    matvec, precon, matvec_max, abstol, reltol,   \* configuration
    self_nMatvec, self_bestSolution,              \* result fields
    self_residNorm, self_residNorm0,
    pc,                                           \* position inside solve
    heap,                                         \* arrays, by reference
    arg,                                          \* arguments, as passed
    rhs, guess,                                   \* caller's references
    nMatvec, guess_supplied, x, r0,               \* locals of solve
    rho, alpha, omega, rho_next, beta,
    residNorm, threshold, finished,
    r, p, v, q, s, z, t,
    opCalls, preconCalls,                         \* invocations, this call
    itOps, itPrecon, itDots,                      \* invocations, this iteration
    fullIters, halfEnd,                           \* iterations of this call
    normMet,                                      \* some norm was <= threshold
    firstArg, firstOut,                           \* the first call of the instance
    reused                                        \* this call is not the first

config == <<matvec, precon, matvec_max, abstol, reltol>>

fields == <<self_nMatvec, self_bestSolution, self_residNorm, self_residNorm0>>

scalars == <<rho, alpha, omega, rho_next, beta>>

refs == <<rhs, guess, x, r0, r, p, v, q, s, z, t>>

counters == <<opCalls, preconCalls, itOps, itPrecon, itDots, fullIters, halfEnd, normMet>>

history == <<firstArg, firstOut, reused>>

vars == <<config, fields, pc, heap, arg, nMatvec, guess_supplied, scalars,
          residNorm, threshold, finished, refs, counters, history>>

-----------------------------------------------------------------------------
(* The tests of the loop.                                                  *)

\* the comparison reversed: residNorm >= threshold
ConvergedMut(norm, thr) == NLeq(thr, norm)

\* residNorm <= threshold
Converged(norm, thr) == NLeq(norm, thr)

\* the budget test made strict: nMatvec > self.matvec_max
BudgetReachedMut(n) == n > matvec_max

\* nMatvec >= self.matvec_max
BudgetReached(n) == n >= matvec_max

\* the budget test left out
LoopExitMut(norm, thr, n) == Converged(norm, thr)

\* residNorm <= threshold or nMatvec >= self.matvec_max
LoopExit(norm, thr, n) == Converged(norm, thr) \/ BudgetReached(n)

\* max( self.abstol, self.reltol * self.residNorm0 )
Threshold(norm0) == NMax(AsNorm(abstol), NScale(reltol, norm0))

\* the count carried over from the previous call
EntryCountMut == self_nMatvec

\* nMatvec = 0 on entry
EntryCount == 0

\* the increment left out
CountedMut(n) == n

\* nMatvec += 1
Counted(n) == n + 1

\* the preconditioner never applied
PreconditionMut(h, ref) == [ref |-> ref, heap |-> h, calls |-> 0]

\* q = self.precon(p) or q = p: the array q names, and the heap holding it
Precondition(h, ref) ==
    IF precon = None
    THEN [ref |-> ref, heap |-> h, calls |-> 0]
    ELSE [ref |-> Len(h) + 1, heap |-> Append(h, Apply(precon, h[ref])), calls |-> 1]

\* the guess ignored: x is always the fresh zero array
InitialXMut(guessRef, zerosRef) == zerosRef

\* x = kwargs.get('guess', np.zeros(n)): the supplied array itself
InitialX(guessRef, zerosRef) == IF guessRef # 0 THEN guessRef ELSE zerosRef

\* what the result fields hold, arrays by contents
BestContents == IF self_bestSolution = 0 THEN None ELSE heap[self_bestSolution]

Result ==
    [nMatvec |-> self_nMatvec, bestSolution |-> BestContents,
     residNorm |-> self_residNorm, residNorm0 |-> self_residNorm0]

-----------------------------------------------------------------------------
Init ==
    /\ matvec \in Operators
    /\ precon \in Precons
    /\ matvec_max \in 0..MaxBudget
    /\ \E tol \in Tolerances : abstol = tol.abstol /\ reltol = tol.reltol
    /\ self_nMatvec = 0
    /\ self_bestSolution = 0
    /\ self_residNorm = NoNorm
    /\ self_residNorm0 = NoNorm
    /\ pc = "new"
    /\ heap = <<>>
    /\ arg = NoArg
    /\ rhs = 0 /\ guess = 0
    /\ nMatvec = 0 /\ guess_supplied = FALSE /\ x = 0 /\ r0 = 0
    /\ rho = None /\ alpha = None /\ omega = None /\ rho_next = None /\ beta = None
    /\ residNorm = NoNorm /\ threshold = NoNorm /\ finished = FALSE
    /\ r = 0 /\ p = 0 /\ v = 0 /\ q = 0 /\ s = 0 /\ z = 0 /\ t = 0
    /\ opCalls = 0 /\ preconCalls = 0
    /\ itOps = 0 /\ itPrecon = 0 /\ itDots = 0
    /\ fullIters = 0 /\ halfEnd = FALSE /\ normMet = FALSE
    /\ firstArg = NoArg
    /\ firstOut = [nMatvec |-> 0, bestSolution |-> None,
                   residNorm |-> NoNorm, residNorm0 |-> NoNorm]
    /\ reused = FALSE

\* lines 46-51: the caller enters solve(rhs) or solve(rhs, guess=...).  Arrays
\* that nothing references any more are dropped: the heap keeps the array
\* self.bestSolution names, then holds rhs, the guess and np.zeros(n).
\* (A name is bound by \E over a one-element set, which evaluates it once.)
Call(a) ==
    /\ pc \in {"new", "idle"}
    /\ \E kept \in {IF self_bestSolution = 0 THEN <<>> ELSE <<heap[self_bestSolution]>>} :
       \E h1 \in {Append(kept, a.rhs)} :
       \E h2 \in {IF a.guess = None \/ a.same THEN h1 ELSE Append(h1, a.guess)} :
       \E guessRef \in {IF a.guess = None THEN 0 ELSE Len(h2)} :
       \E h3 \in {Append(h2, Zeros(Len(a.rhs)))} :
           /\ heap' = h3
           /\ self_bestSolution' = Len(kept)
           /\ rhs' = Len(h1)
           /\ guess' = guessRef
           /\ guess_supplied' = (guessRef # 0)
           /\ x' = InitialX(guessRef, Len(h3))
    /\ arg' = a
    /\ nMatvec' = EntryCount
    /\ r0' = 0 /\ r' = 0 /\ p' = 0 /\ v' = 0 /\ q' = 0 /\ s' = 0 /\ z' = 0 /\ t' = 0
    /\ rho' = None /\ alpha' = None /\ omega' = None /\ rho_next' = None /\ beta' = None
    /\ residNorm' = NoNorm /\ threshold' = NoNorm /\ finished' = FALSE
    /\ opCalls' = 0 /\ preconCalls' = 0
    /\ itOps' = 0 /\ itPrecon' = 0 /\ itDots' = 0
    /\ fullIters' = 0 /\ halfEnd' = FALSE /\ normMet' = FALSE
    /\ pc' = "setup"
    /\ reused' = (pc = "idle")
    /\ UNCHANGED <<config, self_nMatvec, self_residNorm, self_residNorm0, firstArg, firstOut>>

\* lines 53-76: the initial residual, the threshold and the working vectors
Setup ==
    /\ pc = "setup"
    /\ \E h1 \in {IF guess_supplied
                  THEN Append(heap, VSub(heap[rhs], Apply(matvec, heap[x])))
                  ELSE heap} :
       \E r0Ref \in {IF guess_supplied THEN Len(h1) ELSE rhs} :
       \E n1 \in {IF guess_supplied THEN Counted(nMatvec) ELSE nMatvec} :
       \E rn \in {Dot(h1[r0Ref], h1[r0Ref])} :
       \E thr \in {Threshold(Sqrt(rn))} :
       \E fin \in {LoopExit(Sqrt(rn), thr, n1)} :
           /\ heap' = IF fin THEN h1
                      ELSE h1 \o << h1[r0Ref], Zeros(Len(h1[rhs])), Zeros(Len(h1[rhs])) >>
           /\ r0' = r0Ref
           /\ nMatvec' = n1
           /\ opCalls' = opCalls + (IF guess_supplied THEN 1 ELSE 0)
           /\ rho_next' = rn
           /\ residNorm' = Sqrt(rn)
           /\ self_residNorm0' = Sqrt(rn)
           /\ threshold' = thr
           /\ normMet' = NLeq(Sqrt(rn), thr)
           /\ finished' = fin
           /\ r' = IF fin THEN 0 ELSE Len(h1) + 1
           /\ p' = IF fin THEN 0 ELSE Len(h1) + 2
           /\ v' = IF fin THEN 0 ELSE Len(h1) + 3
           /\ pc' = IF fin THEN "publish" ELSE "loop"
    /\ rho' = One /\ alpha' = One /\ omega' = One
    /\ UNCHANGED <<config, self_nMatvec, self_bestSolution, self_residNorm, arg,
                   rhs, guess, guess_supplied, x, beta, q, s, z, t, preconCalls,
                   itOps, itPrecon, itDots, fullIters, halfEnd, history>>

\* lines 80-103: the first half of an iteration, up to the norm of s
FirstHalf ==
    /\ pc = "loop"
    /\ \E b \in {Div(Mul(Div(rho_next, rho), alpha), omega)} :
       \E p1 \in {VScale(b, heap[p])} :
       \E p2 \in {VSub(p1, VScale(Mul(b, omega), heap[v]))} :
       \E h1 \in {[heap EXCEPT ![p] = VAdd(p2, heap[r])]} :
       \E pre \in {Precondition(h1, p)} :
       \E h2 \in {Append(pre.heap, Apply(matvec, pre.heap[pre.ref]))} :
       \E a \in {Div(rho_next, Dot(h2[r0], h2[Len(h2)]))} :
       \E h3 \in {Append(h2, VSub(h2[r], VScale(a, h2[Len(h2)])))} :
       \E norm \in {Sqrt(Dot(h3[Len(h3)], h3[Len(h3)]))} :
           /\ beta' = b
           /\ rho' = rho_next
           /\ heap' = h3
           /\ q' = pre.ref
           /\ v' = Len(h2)
           /\ nMatvec' = Counted(nMatvec)
           /\ alpha' = a
           /\ s' = Len(h3)
           /\ residNorm' = norm
           /\ normMet' = (normMet \/ NLeq(norm, threshold))
           /\ opCalls' = opCalls + 1
           /\ preconCalls' = preconCalls + pre.calls
           /\ itOps' = 1
           /\ itPrecon' = pre.calls
           /\ itDots' = 2
    /\ pc' = "half"
    /\ UNCHANGED <<config, fields, arg, rhs, guess, guess_supplied, x, r0, r, p, z, t,
                   omega, rho_next, threshold, finished, fullIters, halfEnd, history>>

\* lines 105-108: the half step meets the tolerance
HalfConverged ==
    /\ pc = "half"
    /\ Converged(residNorm, threshold)
    /\ heap' = [heap EXCEPT ![x] = VAdd(heap[x], VScale(alpha, heap[q]))]
    /\ finished' = TRUE
    /\ halfEnd' = TRUE
    /\ pc' = "publish"
    /\ UNCHANGED <<config, fields, arg, nMatvec, guess_supplied, scalars, residNorm,
                   threshold, refs, opCalls, preconCalls, itOps, itPrecon, itDots,
                   fullIters, normMet, history>>

\* lines 110-112: the budget is spent after the first product
HalfBudget ==
    /\ pc = "half"
    /\ ~Converged(residNorm, threshold)
    /\ BudgetReached(nMatvec)
    /\ finished' = TRUE
    /\ halfEnd' = TRUE
    /\ pc' = "publish"
    /\ UNCHANGED <<config, fields, heap, arg, nMatvec, guess_supplied, scalars, residNorm,
                   threshold, refs, opCalls, preconCalls, itOps, itPrecon, itDots,
                   fullIters, normMet, history>>

\* lines 114-136: the second half of an iteration, up to the norm of r
SecondHalf ==
    /\ pc = "half"
    /\ ~Converged(residNorm, threshold)
    /\ ~BudgetReached(nMatvec)
    /\ \E pre \in {Precondition(heap, s)} :
       \E h1 \in {Append(pre.heap, Apply(matvec, pre.heap[pre.ref]))} :
       \E w \in {Div(Dot(h1[Len(h1)], h1[s]), Dot(h1[Len(h1)], h1[Len(h1)]))} :
       \E rn \in {Mul(Neg(w), Dot(h1[r0], h1[Len(h1)]))} :
       \E h2 \in {Append(h1, VSub(h1[s], VScale(w, h1[Len(h1)])))} :
       \E h3 \in {[h2 EXCEPT ![pre.ref] = VScale(w, h2[pre.ref])]} :
       \E h4 \in {[h3 EXCEPT ![x] = VAdd(h3[x], h3[pre.ref])]} :
       \E h5 \in {[h4 EXCEPT ![x] = VAdd(h4[x], VScale(alpha, h4[q]))]} :
       \E norm \in {Sqrt(Dot(h5[Len(h2)], h5[Len(h2)]))} :
           /\ heap' = h5
           /\ z' = pre.ref
           /\ t' = Len(h1)
           /\ nMatvec' = Counted(nMatvec)
           /\ omega' = w
           /\ rho_next' = rn
           /\ r' = Len(h2)
           /\ residNorm' = norm
           /\ normMet' = (normMet \/ NLeq(norm, threshold))
           /\ opCalls' = opCalls + 1
           /\ preconCalls' = preconCalls + pre.calls
           /\ itOps' = itOps + 1
           /\ itPrecon' = itPrecon + pre.calls
           /\ itDots' = itDots + 4
    /\ pc' = "full"
    /\ UNCHANGED <<config, fields, arg, rhs, guess, guess_supplied, x, r0, p, v, q, s,
                   rho, alpha, beta, threshold, finished, fullIters, halfEnd, history>>

\* lines 138-140 and the loop test of line 78
FullCheck ==
    /\ pc = "full"
    /\ finished' = LoopExit(residNorm, threshold, nMatvec)
    /\ pc' = IF finished' THEN "publish" ELSE "loop"
    /\ fullIters' = fullIters + 1
    /\ UNCHANGED <<config, fields, heap, arg, nMatvec, guess_supplied, scalars, residNorm,
                   threshold, refs, opCalls, preconCalls, itOps, itPrecon, itDots,
                   halfEnd, normMet, history>>

\* lines 143-145: the results are stored and solve returns
Publish ==
    /\ pc = "publish"
    /\ self_nMatvec' = nMatvec
    /\ self_bestSolution' = x
    /\ self_residNorm' = residNorm
    /\ pc' = "idle"
    /\ IF firstArg = NoArg
       THEN /\ firstArg' = arg
            /\ firstOut' = [nMatvec |-> nMatvec, bestSolution |-> heap[x],
                            residNorm |-> residNorm, residNorm0 |-> self_residNorm0]
       ELSE UNCHANGED <<firstArg, firstOut>>
    /\ UNCHANGED reused
    /\ UNCHANGED <<config, self_residNorm0, heap, arg, nMatvec, guess_supplied, scalars,
                   residNorm, threshold, finished, refs, counters>>

Step == Setup \/ FirstHalf \/ HalfConverged \/ HalfBudget \/ SecondHalf \/ FullCheck \/ Publish

Next == (\E a \in Args : Call(a)) \/ Step

Spec == Init /\ [][Next]_vars

\* One call on a freshly constructed solver.  solve runs synchronously: once
\* entered, it keeps executing, which is the fairness of Step.
FirstCall(a) == pc = "new" /\ Call(a)

NextOnce == (\E a \in Args : FirstCall(a)) \/ Step

FairSpec == Init /\ [][NextOnce]_vars /\ WF_vars(Step)


-----------------------------------------------------------------------------
(* The properties.  A call has returned when pc = "idle"; the locals and   *)
(* the counters then still hold the values of that call.                   *)

GuessCount == IF guess_supplied THEN 1 ELSE 0

HalfCount == IF halfEnd THEN 1 ELSE 0

ZeroVec == Zeros(Len(arg.rhs))

\* rhs - A * bestSolution, with the rhs as it was passed
TrueResidual == VSub(arg.rhs, Apply(matvec, BestContents))

\* operator invocations made inside the loop
LoopOps == opCalls - (IF pc = "setup" THEN 0 ELSE GuessCount)

\* C1: when solve returns, nMatvec <= matvec_max or residNorm <= threshold,
\* for every matvec_max >= 0 and every choice of guess.
C1_BudgetOrTolerance ==
    pc = "idle" => (self_nMatvec <= matvec_max \/ NLeq(self_residNorm, threshold))

\* C2 as stated: the published nMatvec is the number of operator invocations
\* of the call, and is 2k + h, plus 1 only if a nonzero guess was supplied.
C2_NonzeroGuessCount ==
    pc = "idle" =>
        /\ self_nMatvec = opCalls
        /\ self_nMatvec = 2 * fullIters + HalfCount
                            + (IF guess_supplied /\ arg.guess # ZeroVec THEN 1 ELSE 0)

\* C2 amended: the published nMatvec is the number of operator invocations of
\* the call, and is 2k + h, plus 1 if a guess was supplied, zero or not.
C2_MatvecCount ==
    pc = "idle" =>
        /\ self_nMatvec = opCalls
        /\ self_nMatvec = 2 * fullIters + HalfCount + GuessCount

\* a supplied all-zero guess, one full iteration, then an exit on the half step
C2_Witness ==
    pc = "idle" /\ guess_supplied /\ arg.guess = ZeroVec /\ fullIters = 1 /\ halfEnd

\* C3 as stated: when no norm computed during the call was <= threshold, solve
\* returns with nMatvec within one of matvec_max and residNorm > threshold.
C3_BudgetStrictlyAbove ==
    (pc = "idle" /\ ~normMet) =>
        /\ self_nMatvec \in {matvec_max - 1, matvec_max, matvec_max + 1}
        /\ NGt(self_residNorm, threshold)

\* C3 amended: when no norm computed during the call was <= threshold, solve
\* returns with nMatvec within one of matvec_max and with a residNorm that is
\* not <= threshold (greater than it, or NaN after a breakdown).
C3_BudgetEnforced ==
    (pc = "idle" /\ ~normMet) =>
        /\ self_nMatvec \in {matvec_max - 1, matvec_max, matvec_max + 1}
        /\ ~NLeq(self_residNorm, threshold)

\* a run that spent a budget of two or more without meeting the tolerance
C3_Witness ==
    pc = "idle" /\ ~normMet /\ matvec_max >= 2 /\ self_nMatvec = matvec_max
        /\ IsFinite(self_residNorm.sq)

\* C4: when the initial residual meets the tolerance or the budget is already
\* spent, solve runs no iteration: the operator is invoked once for a guess
\* and not at all otherwise, the preconditioner never, the solution is the
\* guess (or zero) unchanged and residNorm is residNorm0.  A zero rhs without
\* guess gives x = 0, nMatvec = 0, residNorm = 0; a guess with A*guess = rhs
\* gives x = guess, nMatvec = 1.
C4_ImmediateTermination ==
    pc = "idle" =>
        /\ (NLeq(self_residNorm0, threshold) \/ GuessCount >= matvec_max) =>
              ( /\ fullIters = 0 /\ ~halfEnd /\ itOps = 0
                /\ opCalls = GuessCount
                /\ preconCalls = 0
                /\ self_nMatvec = GuessCount
                /\ BestContents = (IF guess_supplied THEN arg.guess ELSE ZeroVec)
                /\ self_residNorm = self_residNorm0 )
        /\ (~guess_supplied /\ arg.rhs = ZeroVec) =>
              ( /\ BestContents = ZeroVec
                /\ self_nMatvec = 0
                /\ self_residNorm = Sqrt(Zero) )
        /\ (guess_supplied /\ Apply(matvec, arg.guess) = arg.rhs) =>
              ( /\ BestContents = arg.guess
                /\ self_nMatvec = 1 )

\* a nonzero rhs, a guess that solves the system, a budget that is not spent
C4_Witness ==
    /\ pc = "idle" /\ guess_supplied /\ arg.rhs # ZeroVec
    /\ Apply(matvec, arg.guess) = arg.rhs
    /\ matvec_max > 1 /\ self_nMatvec = 1 /\ BestContents = arg.guess

\* C5: every call of solve returns, also when the tolerance is never met and
\* when a breakdown makes the norms non-finite, and the loop performs at most
\* matvec_max operator invocations.
C5_Termination ==
    /\ (pc = "setup") ~> (pc = "idle")
    /\ [](LoopOps <= matvec_max)

\* a call that returned after a breakdown, with the budget spent in the loop
C5_Witness ==
    pc = "idle" /\ ~IsFinite(self_residNorm.sq) /\ fullIters >= 1
        /\ self_nMatvec = matvec_max

\* C6: an iteration that reaches the full-step check has invoked the operator
\* twice, the preconditioner twice (never when precon is None) and the inner
\* product six times.
C6_IterationCost ==
    pc = "full" =>
        /\ itOps = 2
        /\ itPrecon = (IF precon = None THEN 0 ELSE 2)
        /\ itDots = 6

\* a second full iteration with a preconditioner, after a breakdown
C6_Witness ==
    pc = "full" /\ fullIters = 1 /\ precon # None /\ ~IsFinite(alpha)

\* C7: after any sequence of calls the result fields are those of the last
\* call alone: nMatvec is the operator invocations of that call, and the four
\* fields are what a fresh solver published for the same rhs and guess.
C7_NoAccumulation ==
    pc = "idle" =>
        /\ self_nMatvec = opCalls
        /\ (arg.rhs = firstArg.rhs /\ arg.guess = firstArg.guess) => Result = firstOut

\* a later call that repeats the arguments of the first one
C7_Witness ==
    /\ pc = "idle" /\ reused /\ guess_supplied
    /\ arg.rhs = firstArg.rhs /\ arg.guess = firstArg.guess
    /\ self_nMatvec >= 3

\* C8: between the entry of solve and its return no result field changes.
C8_NoPartialResult ==
    [][pc' # "idle" =>
          /\ self_nMatvec' = self_nMatvec
          /\ BestContents' = BestContents
          /\ self_residNorm' = self_residNorm
          /\ self_residNorm0' = self_residNorm0]_vars

\* C9: whenever solve has returned (with finite values), the published
\* residNorm is the norm of the residual of the published bestSolution.
C9_ResidualOfSolution ==
    (pc = "idle" /\ VFinite(BestContents) /\ IsFinite(self_residNorm.sq)) =>
        self_residNorm = Sqrt(Dot(TrueResidual, TrueResidual))

=============================================================================
